---- MODULE Spec2Model ----
(***************************************************************************)
(* A model of the generic data-access class BaseDAO (bot/dao/base.py), of  *)
(* the users table it is bound to (bot/users/models.py, bot/database.py)   *)
(* and of the /start handler cmd_start (bot/users/router.py).              *)
(*                                                                         *)
(* The table is a sequence of rows in the store's scan order.  A column    *)
(* value is NULL or Some(v).  A Python keyword dictionary (filter_by,      *)
(* values, a bulk_update record) is a function from the column names it    *)
(* holds to column values.                                                 *)
(***************************************************************************)
EXTENDS Integers, Sequences, FiniteSets, TLC

VARIABLES
    store,      \* the users table
    nextId,     \* the id the store assigns to the next row inserted
    last,       \* the data-access call a sequential caller made last
    starts,     \* the /start updates being handled, one task each
    upserts     \* the upsert calls in progress, one task each

vars == <<store, nextId, last, starts, upserts>>

----------------------------------------------------------------------------
(* Bounds of the model.                                                    *)

MaxId == 3
MaxBatch == 2
MaxPage == 3
MaxPageSize == 2
MaxTasks == 2

----------------------------------------------------------------------------
(* Column values and rows.                                                 *)

NULL == <<>>
Some(v) == <<v>>

Columns == {"id", "telegram_id", "username", "first_name", "last_name", "referral_id"}

TelegramIds == {1, 2, 3}
Usernames == {"a"}

EmptyDict == [c \in {} |-> NULL]

\* cls.model(values): the columns given take the values given, the others
\* their default NULL; id is assigned by the store (autoincrement).
NewInstance(values, id) ==
    [c \in Columns |-> IF c = "id" THEN Some(id)
                       ELSE IF c \in DOMAIN values THEN values[c] ELSE NULL]

\* variant: the column without its unique constraint
NoIndex_UniqueTelegramId(rows) == TRUE

\* telegram_id is declared unique=True
UniqueTelegramId(rows) ==
    \A i, j \in 1..Len(rows) : rows[i].telegram_id = rows[j].telegram_id => i = j

\* telegram_id is declared nullable=False
NotNullTelegramId(rows) ==
    \A i \in 1..Len(rows) : rows[i].telegram_id # NULL

\* what the store accepts at flush time; anything else is an IntegrityError
ConstraintsOk(rows) == NotNullTelegramId(rows) /\ UniqueTelegramId(rows)

\* filter_by(...): equality on every column the filter names
Matches(row, filter_by) == \A c \in DOMAIN filter_by : row[c] = filter_by[c]

SelectWhere(rows, filter_by) == SelectSeq(rows, LAMBDA r : Matches(r, filter_by))

----------------------------------------------------------------------------
(* What a call gives back: the exception it raised ("None" when it         *)
(* returned), the entities it returned, the number it returned, and        *)
(* whether it opened a session.                                            *)

Returned(rows, n) == [exc |-> "None", rows |-> rows, count |-> n, session |-> TRUE]
Raised(e, opened) == [exc |-> e, rows |-> <<>>, count |-> 0, session |-> opened]

\* the exceptions that derive from SQLAlchemyError
SQLAlchemyError == {"IntegrityError", "MultipleResultsFound"}

----------------------------------------------------------------------------
(* BaseDAO, one operator per method: the table after the call and the      *)
(* call's outcome.                                                         *)

\* variant: scalars().first() in place of scalar_one_or_none()
FirstMatch_find_one_or_none(rows, filter_by) ==
    LET found == SelectWhere(rows, filter_by)
    IN  [store |-> rows,
         result |-> Returned(IF found = <<>> THEN <<>> ELSE <<found[1]>>, 0)]

\* scalar_one_or_none(): None for no row, the row for one, MultipleResultsFound
\* for more; the except clause re-raises it
find_one_or_none(rows, filter_by) ==
    LET found == SelectWhere(rows, filter_by)
    IN  [store |-> rows,
         result |-> IF Len(found) > 1 THEN Raised("MultipleResultsFound", TRUE)
                    ELSE Returned(found, 0)]

\* variant: an insert that replaces the stored row with the same telegram_id
Replacing_add(rows, id, values) ==
    LET new_instance == NewInstance(values, id)
        others == SelectSeq(rows, LAMBDA r : r.telegram_id # new_instance.telegram_id)
        flushed == Append(others, new_instance)
    IN  IF ConstraintsOk(flushed)
        THEN [store |-> flushed, result |-> Returned(<<new_instance>>, 0)]
        ELSE [store |-> rows, result |-> Raised("IntegrityError", TRUE)]

\* session.add + commit: the flush inserts the instance; a failure rolls the
\* transaction back and is re-raised
add(rows, id, values) ==
    LET new_instance == NewInstance(values, id)
        flushed == Append(rows, new_instance)
    IN  IF ConstraintsOk(flushed)
        THEN [store |-> flushed, result |-> Returned(<<new_instance>>, 0)]
        ELSE [store |-> rows, result |-> Raised("IntegrityError", TRUE)]

\* variant: one commit per instance, so that the instances before the
\* failing one stay
KeepPrefix_add_many(rows, id, instances) ==
    LET new_instances == [k \in 1..Len(instances) |-> NewInstance(instances[k], id + k - 1)]
        ok(k) == ConstraintsOk(rows \o SubSeq(new_instances, 1, k))
        good == {k \in 0..Len(instances) : \A m \in 0..k : ok(m)}
        n == CHOOSE k \in good : \A m \in good : m <= k
    IN  IF n = Len(instances)
        THEN [store |-> rows \o new_instances, result |-> Returned(new_instances, 0)]
        ELSE [store |-> rows \o SubSeq(new_instances, 1, n),
              result |-> Raised("IntegrityError", TRUE)]

\* session.add_all + commit: one flush inserts every instance in one
\* transaction; a failure rolls the whole transaction back and is re-raised
add_many(rows, id, instances) ==
    LET new_instances == [k \in 1..Len(instances) |-> NewInstance(instances[k], id + k - 1)]
        flushed == rows \o new_instances
    IN  IF ConstraintsOk(flushed)
        THEN [store |-> flushed, result |-> Returned(new_instances, 0)]
        ELSE [store |-> rows, result |-> Raised("IntegrityError", TRUE)]

\* variant: delete without the check of its arguments
Unguarded_delete(rows, delete_all, filter_by) ==
    LET kept == SelectSeq(rows, LAMBDA r : ~Matches(r, filter_by))
    IN  [store |-> kept, result |-> Returned(<<>>, Len(rows) - Len(kept))]

\* ValueError before the session is opened when there is neither a filter nor
\* delete_all; otherwise DELETE ... WHERE filter_by, commit, rowcount
delete(rows, delete_all, filter_by) ==
    IF ~delete_all /\ DOMAIN filter_by = {}
    THEN [store |-> rows, result |-> Raised("ValueError", FALSE)]
    ELSE LET kept == SelectSeq(rows, LAMBDA r : ~Matches(r, filter_by))
         IN  [store |-> kept, result |-> Returned(<<>>, Len(rows) - Len(kept))]

\* OFFSET offset LIMIT limit over a result
OffsetLimit(found, offset, limit) ==
    LET left == IF Len(found) > offset THEN Len(found) - offset ELSE 0
        n == IF left < limit THEN left ELSE limit
    IN  [k \in 1..n |-> found[offset + k]]

\* variant: the offset of a 0-indexed page
ZeroIndexed_paginate(rows, page, page_size, filter_by) ==
    LET found == SelectWhere(rows, filter_by)
        offset == page * page_size
    IN  [store |-> rows,
         result |-> Returned(OffsetLimit(found, offset, page_size), 0)]

\* query.offset((page - 1) * page_size).limit(page_size)
paginate(rows, page, page_size, filter_by) ==
    LET found == SelectWhere(rows, filter_by)
        offset == (page - 1) * page_size
    IN  [store |-> rows,
         result |-> Returned(OffsetLimit(found, offset, page_size), 0)]

\* one UPDATE ... WHERE id = record['id'] SET update_data
UpdateById(rows, record) ==
    [j \in 1..Len(rows) |->
        IF rows[j].id = record.id
        THEN [c \in Columns |-> IF c \in DOMAIN record /\ c # "id"
                                THEN record[c] ELSE rows[j][c]]
        ELSE rows[j]]

RowCount(rows, record) == Len(SelectSeq(rows, LAMBDA r : r.id = record.id))

\* the loop of bulk_update from record i on: tx is the table inside the
\* transaction, updated_count the running total
RECURSIVE BulkLoop(_, _, _, _)
BulkLoop(tx, records, i, updated_count) ==
    IF i > Len(records) THEN [failed |-> FALSE, tx |-> tx, updated_count |-> updated_count]
    ELSE IF "id" \notin DOMAIN records[i]
         THEN BulkLoop(tx, records, i + 1, updated_count)
    ELSE LET after == UpdateById(tx, records[i])
         IN  IF ~ConstraintsOk(after)
             THEN [failed |-> TRUE, tx |-> tx, updated_count |-> updated_count]
             ELSE BulkLoop(after, records, i + 1, updated_count + RowCount(tx, records[i]))

\* variant: the updates made before the failing one are committed
NoRollback_bulk_update(rows, records) ==
    LET run == BulkLoop(rows, records, 1, 0)
    IN  IF run.failed
        THEN [store |-> run.tx, result |-> Raised("IntegrityError", TRUE)]
        ELSE [store |-> run.tx, result |-> Returned(<<>>, run.updated_count)]

\* the loop, then commit and the total; a storage error rolls the
\* transaction back and is re-raised
bulk_update(rows, records) ==
    LET run == BulkLoop(rows, records, 1, 0)
    IN  IF run.failed
        THEN [store |-> rows, result |-> Raised("IntegrityError", TRUE)]
        ELSE [store |-> run.tx, result |-> Returned(<<>>, run.updated_count)]

----------------------------------------------------------------------------
(* Inputs of the calls.                                                    *)

\* keyword values of add / add_many / upsert
ValueDicts ==
    {EmptyDict}
    \cup {[telegram_id |-> Some(t)] : t \in TelegramIds}
    \cup {[username |-> Some(u)] : u \in Usernames}
    \cup {[telegram_id |-> Some(t), username |-> Some(u)] : t \in TelegramIds, u \in Usernames}

\* the elements of an add_many batch
BatchDicts == {EmptyDict} \cup {[telegram_id |-> Some(t)] : t \in TelegramIds}

\* keyword filters
FilterDicts ==
    {EmptyDict}
    \cup {[id |-> Some(i)] : i \in 1..MaxId}
    \cup {[telegram_id |-> Some(t)] : t \in TelegramIds}
    \cup {[username |-> u] : u \in {NULL} \cup {Some(n) : n \in Usernames}}

\* keyword filters of paginate
PageFilterDicts ==
    {EmptyDict} \cup {[username |-> u] : u \in {NULL} \cup {Some(n) : n \in Usernames}}

\* the records of a bulk_update: without an id, or with the id of one of the
\* first two rows ever inserted and a new username or telegram_id
UpdateRecords ==
    {[username |-> Some(u)] : u \in Usernames}
    \cup {[id |-> Some(i), username |-> Some(u)] : i \in 1..2, u \in Usernames}
    \cup {[id |-> Some(i), telegram_id |-> Some(t)] : i \in 1..2, t \in 1..2}

SeqsUpTo(S, n) == UNION {[1..k -> S] : k \in 0..n}

NoCall == [op |-> "none", delete_all |-> FALSE, filter_by |-> EmptyDict,
           instances |-> <<>>, page |-> 0, page_size |-> 0,
           result |-> Returned(<<>>, 0)]

----------------------------------------------------------------------------
(* Sequential calls of the data-access methods on one table.               *)

Tasks == 1..MaxTasks

IdleStart == [pc |-> "idle", user_id |-> 0, args |-> NULL, existed |-> FALSE,
              failed |-> FALSE, replies |-> <<>>, outcome |-> "none"]

IdleUpsert == [pc |-> "idle", unique_fields |-> <<>>, values |-> EmptyDict,
               existing |-> <<>>, after |-> {}, result |-> Returned(<<>>, 0)]

\* the state after the engine and the tables are created
Init ==
    /\ store = <<>>
    /\ nextId = 1
    /\ last = NoCall
    /\ starts = [t \in Tasks |-> IdleStart]
    /\ upserts = [t \in Tasks |-> IdleUpsert]


Add(values) ==
    /\ last.op = "none"
    /\ nextId <= MaxId
    /\ LET r == add(store, nextId, values)
       IN  /\ store' = r.store
           /\ nextId' = IF r.result.exc = "None" THEN nextId + 1 ELSE nextId
           /\ last' = [NoCall EXCEPT !.op = "add", !.instances = <<values>>,
                                     !.result = r.result]
           /\ UNCHANGED <<starts, upserts>>

AddMany(instances) ==
    /\ last.op = "none"
    /\ nextId + Len(instances) - 1 <= MaxId
    /\ LET r == add_many(store, nextId, instances)
       IN  /\ store' = r.store
           /\ nextId' = IF r.result.exc = "None" THEN nextId + Len(instances) ELSE nextId
           /\ last' = [NoCall EXCEPT !.op = "add_many", !.instances = instances,
                                     !.result = r.result]
           /\ UNCHANGED <<starts, upserts>>

Delete(delete_all, filter_by) ==
    /\ last.op = "none"
    /\ LET r == delete(store, delete_all, filter_by)
       IN  /\ store' = r.store
           /\ last' = [NoCall EXCEPT !.op = "delete", !.delete_all = delete_all,
                                     !.filter_by = filter_by, !.result = r.result]
           /\ UNCHANGED <<nextId, starts, upserts>>

FindOneOrNone(filter_by) ==
    /\ last.op = "none"
    /\ LET r == find_one_or_none(store, filter_by)
       IN  /\ last' = [NoCall EXCEPT !.op = "find_one_or_none", !.filter_by = filter_by,
                                     !.result = r.result]
           /\ UNCHANGED <<store, nextId, starts, upserts>>

Paginate(page, page_size, filter_by) ==
    /\ last.op = "none"
    /\ LET r == paginate(store, page, page_size, filter_by)
       IN  /\ last' = [NoCall EXCEPT !.op = "paginate", !.filter_by = filter_by,
                                     !.page = page, !.page_size = page_size,
                                     !.result = r.result]
           /\ UNCHANGED <<store, nextId, starts, upserts>>

BulkUpdate(records) ==
    /\ last.op = "none"
    /\ LET r == bulk_update(store, records)
       IN  /\ store' = r.store
           /\ last' = [NoCall EXCEPT !.op = "bulk_update", !.instances = records,
                                     !.result = r.result]
           /\ UNCHANGED <<nextId, starts, upserts>>

\* the caller has looked at the outcome of its call; it makes its next call
\* after that (last records one call at a time)
Forget ==
    /\ last.op # "none"
    /\ last' = NoCall
    /\ UNCHANGED <<store, nextId, starts, upserts>>

NextDAO ==
    \/ \E values \in ValueDicts : Add(values)
    \/ \E instances \in SeqsUpTo(BatchDicts, MaxBatch) : AddMany(instances)
    \/ \E delete_all \in BOOLEAN, filter_by \in FilterDicts : Delete(delete_all, filter_by)
    \/ \E filter_by \in FilterDicts : FindOneOrNone(filter_by)
    \/ \E page \in 1..MaxPage, page_size \in 1..MaxPageSize, filter_by \in PageFilterDicts :
          Paginate(page, page_size, filter_by)
    \/ \E records \in SeqsUpTo(UpdateRecords, MaxBatch) : BulkUpdate(records)
    \/ Forget

SpecDAO == Init /\ [][NextDAO]_vars

----------------------------------------------------------------------------
(* Properties of the sequential calls.                                     *)

Range(s) == {s[k] : k \in 1..Len(s)}

\* C1: a delete with an empty filter and delete_all unset raises ValueError
\* before it opens a session and leaves the table as it was; a delete with
\* an empty filter that returns (and so empties the table) had delete_all set.
C1_DeleteNeedsFilter ==
    [][(last'.op = "delete" /\ DOMAIN last'.filter_by = {}) =>
          /\ ~last'.delete_all =>
                /\ last'.result.exc = "ValueError"
                /\ ~last'.result.session
                /\ store' = store
          /\ last'.result.exc = "None" =>
                /\ last'.delete_all
                /\ store' = <<>>
                /\ last'.result.count = Len(store)]_vars

C1_Witness ==
    /\ last.op = "delete" /\ DOMAIN last.filter_by = {} /\ ~last.delete_all
    /\ last.result.exc = "ValueError"
    /\ Len(store) >= 2

\* C6: add_many either persists every entity of the batch, appended to the
\* table with the values given, or raises a storage error and leaves the
\* table as it was before the call.
C6_AddManyAllOrNothing ==
    [][last'.op = "add_many" =>
          LET instances == last'.instances
              result == last'.result
          IN  \/ /\ result.exc = "None"
                 /\ Len(result.rows) = Len(instances)
                 /\ store' = store \o result.rows
                 /\ \A k \in 1..Len(instances) : Matches(result.rows[k], instances[k])
              \/ /\ result.exc \in SQLAlchemyError
                 /\ result.rows = <<>>
                 /\ store' = store]_vars

\* a batch whose first element the store would have accepted alone failed
C6_Witness ==
    /\ last.op = "add_many" /\ last.result.exc = "IntegrityError"
    /\ Len(last.instances) >= 2
    /\ ConstraintsOk(Append(store, NewInstance(last.instances[1], nextId)))

\* the last record of the call that names row's id and sets column c, if any
LastSetter(records, row, c) ==
    LET ks == {k \in 1..Len(records) :
                  /\ "id" \in DOMAIN records[k] /\ records[k].id = row.id
                  /\ c \in DOMAIN records[k] /\ c # "id"}
    IN  IF ks = {} THEN 0 ELSE CHOOSE k \in ks : \A m \in ks : m <= k

\* C7: bulk_update skips the records without an id; when it returns, every
\* row holds, in every column, the value of the last record that names the
\* row's id and sets the column (its old value if there is none) and the
\* number returned counts the records whose id is a row's; when it raises a
\* storage error the table is as it was before the call; a call whose records
\* all lack an id returns 0 and changes nothing.
C7_BulkUpdate ==
    [][last'.op = "bulk_update" =>
          LET records == last'.instances
              result == last'.result
              withId == {k \in 1..Len(records) : "id" \in DOMAIN records[k]}
          IN  /\ \/ /\ result.exc = "None"
                    /\ Len(store') = Len(store)
                    /\ \A j \in 1..Len(store) : \A c \in Columns :
                          LET k == LastSetter(records, store[j], c)
                          IN  store'[j][c] = IF k = 0 THEN store[j][c] ELSE records[k][c]
                    /\ result.count =
                          Cardinality({k \in withId :
                              \E j \in 1..Len(store) : store[j].id = records[k].id})
                 \/ /\ result.exc \in SQLAlchemyError
                    /\ store' = store
              /\ withId = {} => result.exc = "None" /\ result.count = 0 /\ store' = store]_vars

\* a call failed at its second record after its first record had changed a row
C7_Witness ==
    /\ last.op = "bulk_update" /\ last.result.exc = "IntegrityError"
    /\ Len(last.instances) = 2
    /\ bulk_update(store, <<last.instances[1]>>).result.exc = "None"
    /\ bulk_update(store, <<last.instances[1]>>).store # store

PageSizeOf(n, page, page_size) ==
    LET left == IF n - (page - 1) * page_size > 0 THEN n - (page - 1) * page_size ELSE 0
    IN  IF page_size < left THEN page_size ELSE left

C9_FindOneAsStated ==
    last.op = "find_one_or_none" =>
        LET found == SelectWhere(store, last.filter_by)
        IN  /\ last.result.exc = "None"
            /\ found = <<>> <=> last.result.rows = <<>>
            /\ found # <<>> => /\ Len(last.result.rows) = 1
                               /\ last.result.rows[1] \in Range(found)

\* C9 as amended: find_one_or_none returns None when nothing matches, the
\* matching entity when exactly one matches, and raises the storage error
\* MultipleResultsFound, returning nothing, when two or more match.
C9_FindOne ==
    last.op = "find_one_or_none" =>
        LET found == SelectWhere(store, last.filter_by)
        IN  /\ Len(found) = 0 => last.result.exc = "None" /\ last.result.rows = <<>>
            /\ Len(found) = 1 => last.result.exc = "None" /\ last.result.rows = found
            /\ Len(found) > 1 => /\ last.result.exc = "MultipleResultsFound"
                                 /\ last.result.rows = <<>>

C9_Witness ==
    /\ last.op = "find_one_or_none"
    /\ Len(SelectWhere(store, last.filter_by)) > 1
    /\ last.result.exc = "MultipleResultsFound"

----------------------------------------------------------------------------
(* The /start handler cmd_start.  Every inbound update is handled by its   *)
(* own task; a task gives way to the others at each await, so that one     *)
(* step is the code between two awaits and each data-access call, which    *)
(* runs in a session and a transaction of its own, is one step.            *)

\* the senders of updates: message.from_user of each
Senders == {42, 43}

Profile(user_id) ==
    IF user_id = 42
    THEN [username |-> Some("alice"), first_name |-> Some("Alice"), last_name |-> NULL]
    ELSE [username |-> NULL, first_name |-> Some("Bob"), last_name |-> Some("Brown")]

\* command.args: None, or the text after /start as a sequence of characters
\* (a referral identity, or malformed text)
CommandArgs == {NULL, Some(<<"7">>), Some(<<"1", "2">>), Some(<<"7", "a">>)}

DigitValue ==
    ("0" :> 0) @@ ("1" :> 1) @@ ("2" :> 2) @@ ("3" :> 3) @@ ("4" :> 4) @@
    ("5" :> 5) @@ ("6" :> 6) @@ ("7" :> 7) @@ ("8" :> 8) @@ ("9" :> 9)

RECURSIVE ToInt(_)
ToInt(text) ==
    IF text = <<>> THEN 0
    ELSE 10 * ToInt(SubSeq(text, 1, Len(text) - 1)) + DigitValue[text[Len(text)]]

\* the referral identity in the argument text; no referrer when the text is
\* absent or malformed
get_refer_id_or_none(command_args, user_id) ==
    IF command_args = NULL THEN NULL
    ELSE LET text == command_args[1]
         IN  IF text # <<>> /\ \A k \in 1..Len(text) : text[k] \in DOMAIN DigitValue
             THEN Some(ToInt(text))
             ELSE NULL

\* Python's truth value of an Optional[int]
Truthy(value) == value # NULL /\ value[1] # 0

\* variant: the insert without referral_id
NoReferral_StartValues(user_id, command_args) ==
    [telegram_id |-> Some(user_id),
     username |-> Profile(user_id).username,
     first_name |-> Profile(user_id).first_name,
     last_name |-> Profile(user_id).last_name]

\* the keyword values cmd_start passes to UserDAO.add
StartValues(user_id, command_args) ==
    [telegram_id |-> Some(user_id),
     username |-> Profile(user_id).username,
     first_name |-> Profile(user_id).first_name,
     last_name |-> Profile(user_id).last_name,
     referral_id |-> get_refer_id_or_none(command_args, user_id)]

\* UserDAO: BaseDAO with model = User
UserDAO_find_one_or_none(rows, filter_by) == find_one_or_none(rows, filter_by)
UserDAO_add(rows, id, values) == add(rows, id, values)

Greeting == [text |-> "greeting", mention |-> NULL]
Registered(ref_id) == [text |-> "registered",
                       mention |-> IF Truthy(ref_id) THEN ref_id ELSE NULL]
Apology == [text |-> "apology", mention |-> NULL]

\* the dispatcher starts a task for an inbound /start update
Dispatch(t, user_id, command_args) ==
    /\ starts[t].pc = "idle"
    /\ starts' = [starts EXCEPT ![t] =
          [IdleStart EXCEPT !.pc = "lookup", !.user_id = user_id, !.args = command_args,
                            !.existed = \E k \in 1..Len(store) :
                                           store[k].telegram_id = Some(user_id)]]
    /\ UNCHANGED <<store, nextId, last, upserts>>

\* updates arrive one after the other: none is being handled
DispatchInTurn(t, user_id, command_args) ==
    /\ \A u \in Tasks : starts[u].pc \in {"idle", "done"}
    /\ Dispatch(t, user_id, command_args)

\* user_info = await UserDAO.find_one_or_none(telegram_id=user_id)
Lookup(t) ==
    /\ starts[t].pc = "lookup"
    /\ LET r == UserDAO_find_one_or_none(store, [telegram_id |-> Some(starts[t].user_id)])
       IN  starts' = [starts EXCEPT
              ![t].pc = IF r.result.exc # "None" THEN "except"
                        ELSE IF r.result.rows # <<>> THEN "greet" ELSE "insert",
              ![t].failed = r.result.exc # "None"]
    /\ UNCHANGED <<store, nextId, last, upserts>>

\* if user_info: await message.answer(greeting); return
Greet(t) ==
    /\ starts[t].pc = "greet"
    /\ starts' = [starts EXCEPT ![t].pc = "done", ![t].outcome = "returned",
                                ![t].replies = Append(@, Greeting)]
    /\ UNCHANGED <<store, nextId, last, upserts>>

\* ref_id = get_refer_id_or_none(...); await UserDAO.add(...)
Insert(t) ==
    /\ starts[t].pc = "insert"
    /\ LET r == UserDAO_add(store, nextId, StartValues(starts[t].user_id, starts[t].args))
       IN  /\ store' = r.store
           /\ nextId' = IF r.result.exc = "None" THEN nextId + 1 ELSE nextId
           /\ starts' = [starts EXCEPT
                 ![t].pc = IF r.result.exc = "None" THEN "confirm" ELSE "except",
                 ![t].failed = r.result.exc # "None"]
    /\ UNCHANGED <<last, upserts>>

\* await message.answer(msg), msg naming ref_id when it is truthy
Confirm(t) ==
    /\ starts[t].pc = "confirm"
    /\ starts' = [starts EXCEPT ![t].pc = "done", ![t].outcome = "returned",
          ![t].replies = Append(@,
              Registered(get_refer_id_or_none(starts[t].args, starts[t].user_id)))]
    /\ UNCHANGED <<store, nextId, last, upserts>>

\* variant: no except clause, the exception reaches the dispatcher
Propagating_HandleException(t) ==
    /\ starts[t].pc = "except"
    /\ starts' = [starts EXCEPT ![t].pc = "done", ![t].outcome = "raised"]
    /\ UNCHANGED <<store, nextId, last, upserts>>

\* except Exception: logger.error(...); await message.answer(apology)
HandleException(t) ==
    /\ starts[t].pc = "except"
    /\ starts' = [starts EXCEPT ![t].pc = "done", ![t].outcome = "returned",
                                ![t].replies = Append(@, Apology)]
    /\ UNCHANGED <<store, nextId, last, upserts>>

\* the store fails the lookup's query: find_one_or_none logs and re-raises
LookupFails(t) ==
    /\ starts[t].pc = "lookup"
    /\ starts' = [starts EXCEPT ![t].pc = "except", ![t].failed = TRUE]
    /\ UNCHANGED <<store, nextId, last, upserts>>

\* the store fails the insert's commit: add rolls back, logs and re-raises
InsertFails(t) ==
    /\ starts[t].pc = "insert"
    /\ starts' = [starts EXCEPT ![t].pc = "except", ![t].failed = TRUE]
    /\ UNCHANGED <<store, nextId, last, upserts>>

\* /start updates handled one after the other
NextStartInTurn ==
    \/ \E t \in Tasks, user_id \in Senders, command_args \in CommandArgs :
          DispatchInTurn(t, user_id, command_args)
    \/ \E t \in Tasks : Lookup(t)
    \/ \E t \in Tasks : Greet(t)
    \/ \E t \in Tasks : Insert(t)
    \/ \E t \in Tasks : Confirm(t)
    \/ \E t \in Tasks : HandleException(t)
    \/ \E t \in Tasks : LookupFails(t)
    \/ \E t \in Tasks : InsertFails(t)

SpecStartInTurn == Init /\ [][NextStartInTurn]_vars

\* /start updates handled concurrently
NextStart ==
    \/ \E t \in Tasks, user_id \in Senders, command_args \in CommandArgs :
          Dispatch(t, user_id, command_args)
    \/ \E t \in Tasks : Lookup(t)
    \/ \E t \in Tasks : Greet(t)
    \/ \E t \in Tasks : Insert(t)
    \/ \E t \in Tasks : Confirm(t)
    \/ \E t \in Tasks : HandleException(t)
    \/ \E t \in Tasks : LookupFails(t)
    \/ \E t \in Tasks : InsertFails(t)

SpecStart == Init /\ [][NextStart]_vars

----------------------------------------------------------------------------
(* Properties of the /start handler.                                       *)

UsersOf(user_id) == SelectWhere(store, [telegram_id |-> Some(user_id)])

C4_CreatedOnce ==
    /\ [](\A user_id \in Senders : Len(UsersOf(user_id)) <= 1)
    /\ [](\A t \in Tasks :
            (starts[t].replies # <<>> /\ starts[t].replies # <<Apology>>) =>
                Len(UsersOf(starts[t].user_id)) = 1)
    /\ [][/\ Len(store') >= Len(store)
          /\ \A k \in 1..Len(store) : store'[k] = store[k]]_vars

\* two handlers for one sender both saw no user and one of them inserted it
C4_Witness ==
    \E t, u \in Tasks :
        /\ t # u /\ starts[t].user_id = starts[u].user_id
        /\ starts[t].pc = "confirm" /\ starts[u].pc = "insert"
        /\ Len(UsersOf(starts[t].user_id)) = 1

\* C5: a handler whose lookup or insert raised sends neither the greeting nor
\* the confirmation, ends by returning, and has then sent the apology alone;
\* no handler ends by raising.
C5_FailureCaught ==
    \A t \in Tasks :
        /\ starts[t].outcome # "raised"
        /\ starts[t].failed =>
              /\ starts[t].pc \in {"except", "done"}
              /\ \A k \in 1..Len(starts[t].replies) : starts[t].replies[k] = Apology
              /\ starts[t].pc = "done" =>
                    /\ starts[t].outcome = "returned"
                    /\ starts[t].replies = <<Apology>>

\* the insert of a handler failed on the unique constraint, another handler
\* having inserted the sender's user since its lookup, and it apologised
C5_Witness ==
    \E t, u \in Tasks :
        /\ t # u /\ starts[t].user_id = starts[u].user_id
        /\ starts[t].pc = "done" /\ starts[t].failed /\ ~starts[t].existed
        /\ starts[t].replies = <<Apology>>
        /\ starts[u].pc = "done" /\ starts[u].replies # <<Apology>>
        /\ ~starts[u].existed

----------------------------------------------------------------------------
(* BaseDAO.upsert.  The call opens a session of its own, and its lookup,   *)
(* cls.find_one_or_none, opens and closes another one: the lookup is one   *)
(* step and the write that follows it another, and calls of other tasks    *)
(* may run between the two.                                                *)

UpsertFields == {<<"telegram_id">>, <<"username">>, <<"id">>}

UpsertDicts ==
    {[telegram_id |-> Some(t), username |-> Some(u)] : t \in {1, 2}, u \in {"a", "b"}}

\* filter_dict = {field: values[field] for field in unique_fields if field in values}
FilterDict(unique_fields, values) ==
    [c \in {unique_fields[k] : k \in 1..Len(unique_fields)} \cap DOMAIN values |-> values[c]]

\* the instance the lookup returned, detached from the lookup's closed
\* session, after setattr(existing, key, value) for every key of values
SetAttrs(existing, values) ==
    [c \in Columns |-> IF c \in DOMAIN values THEN values[c] ELSE existing[c]]

\* the branches of upsert after the lookup.  The instance found belongs to
\* no open session, so the commit of the call's own session has nothing to
\* flush when it is updated; a new instance is added to the call's session
\* and flushed by the commit.
upsert_write(rows, id, existing, values) ==
    IF existing # <<>>
    THEN [store |-> rows, result |-> Returned(<<SetAttrs(existing[1], values)>>, 0)]
    ELSE add(rows, id, values)

\* a caller calls upsert; after records the calls that had ended by then
UpsertBegin(t, unique_fields, values) ==
    /\ upserts[t].pc = "idle"
    /\ upserts' = [upserts EXCEPT ![t] =
          [IdleUpsert EXCEPT !.pc = "lookup", !.unique_fields = unique_fields,
                             !.values = values,
                             !.after = {u \in Tasks : upserts[u].pc = "done"}]]
    /\ UNCHANGED <<store, nextId, last, starts>>

\* existing = await cls.find_one_or_none(filter_dict); a storage error is
\* rolled back, logged and re-raised
UpsertLookup(t) ==
    /\ upserts[t].pc = "lookup"
    /\ LET r == find_one_or_none(store,
                    FilterDict(upserts[t].unique_fields, upserts[t].values))
       IN  upserts' = [upserts EXCEPT
              ![t].pc = IF r.result.exc = "None" THEN "write" ELSE "done",
              ![t].existing = r.result.rows,
              ![t].result = r.result]
    /\ UNCHANGED <<store, nextId, last, starts>>

\* if existing: setattr ... commit; else: session.add(new_instance), commit
UpsertWrite(t) ==
    /\ upserts[t].pc = "write"
    /\ LET r == upsert_write(store, nextId, upserts[t].existing, upserts[t].values)
       IN  /\ store' = r.store
           /\ nextId' = IF r.store # store THEN nextId + 1 ELSE nextId
           /\ upserts' = [upserts EXCEPT ![t].pc = "done", ![t].result = r.result]
    /\ UNCHANGED <<last, starts>>

NextUpsert ==
    \/ \E t \in Tasks, unique_fields \in UpsertFields, values \in UpsertDicts :
          UpsertBegin(t, unique_fields, values)
    \/ \E t \in Tasks : UpsertLookup(t)
    \/ \E t \in Tasks : UpsertWrite(t)

SpecUpsert == Init /\ [][NextUpsert]_vars

----------------------------------------------------------------------------
(* Properties of upsert.                                                   *)

KeyOf(t) == FilterDict(upserts[t].unique_fields, upserts[t].values)

SameKey(t, u) ==
    /\ upserts[t].unique_fields = upserts[u].unique_fields
    /\ DOMAIN KeyOf(t) # {}
    /\ \A c \in DOMAIN KeyOf(t) : upserts[t].values[c] = upserts[u].values[c]

\* C2: after two upserts made one after the other with the same values of
\* the unique fields, the table holds exactly one entity with that key and it
\* carries every value of the second call.
C2_UpsertTwice ==
    \A t, u \in Tasks :
        (/\ t # u /\ upserts[t].pc = "done" /\ upserts[u].pc = "done"
         /\ t \in upserts[u].after
         /\ SameKey(t, u)) =>
            /\ Len(SelectWhere(store, KeyOf(u))) = 1
            /\ Matches(SelectWhere(store, KeyOf(u))[1], upserts[u].values)

\* both calls looked up before either wrote, found nothing and inserted
BothInserted(t, u) ==
    /\ t # u /\ upserts[t].pc = "done" /\ upserts[u].pc = "done"
    /\ t \notin upserts[u].after /\ u \notin upserts[t].after
    /\ upserts[t].existing = <<>> /\ upserts[u].existing = <<>>
    /\ upserts[t].result.exc # "MultipleResultsFound"
    /\ upserts[u].result.exc # "MultipleResultsFound"
    /\ SameKey(t, u)

\* C10: when two overlapping upserts with the same key both found nothing and
\* both took the insert branch, a key that holds telegram_id, the column with
\* the unique constraint, is stored at most once and at most one of the calls
\* returns, every other one raising IntegrityError; when both calls return,
\* the key holds no constrained column and is stored at least twice.
C10_UpsertRace ==
    \A t, u \in Tasks :
        BothInserted(t, u) =>
            LET key == KeyOf(t)
                stored == Len(SelectWhere(store, key))
                bothReturn == upserts[t].result.exc = "None" /\ upserts[u].result.exc = "None"
            IN  /\ {upserts[t].result.exc, upserts[u].result.exc}
                      \subseteq {"None", "IntegrityError"}
                /\ "telegram_id" \in DOMAIN key => stored <= 1 /\ ~bothReturn
                /\ bothReturn => stored >= 2 /\ "telegram_id" \notin DOMAIN key

\* two overlapping upserts keyed on username both inserted: two users share
\* the key
C10_Witness ==
    \E t, u \in Tasks :
        /\ BothInserted(t, u)
        /\ upserts[t].unique_fields = <<"username">>
        /\ upserts[t].result.exc = "None" /\ upserts[u].result.exc = "None"
        /\ Len(SelectWhere(store, KeyOf(t))) = 2

====
